---- MODULE Spec2Model ----
(***************************************************************************)
(* Model of src/src/stub.c: the structured-exception trampoline            *)
(* __microseh_HandlerStub.  A thread's call stack alternates trampoline    *)
(* frames (stubs) and callback frames (cbs): stubs[t][d] called cbs[t][d], *)
(* and cbs[t][d] may call stubs[t][d+1].  A raised structured exception is *)
(* dispatched to the innermost protected region first.                     *)
(***************************************************************************)
EXTENDS Integers, Sequences, FiniteSets, TLC

\* ---- bounds ----
NumThreads == 2
MaxInvocations == 2

\* ---- program constants ----
MS_SUCCEEDED == 0
MS_CATCHED == 1
EXCEPTION_EXECUTE_HANDLER == 1
NULL == 0

Threads == 1..NumThreads

\* Exception codes a callback can raise, as the low byte of the platform
\* codes 0xC0000005 (access violation) and 0xC0000094 (integer divide by zero).
Codes == {5, 148}
NoExc == 0

\* The sentinel a caller leaves in a record before the call.
Prefill == {57005}

\* Addresses: one exception record per thread and nesting level, one context
\* cell per thread.
RecAddr(t, d) == 100 + 10 * t + d
CtxAddr(t) == 200 + t
RecAddrs == {RecAddr(t, d) : t \in Threads, d \in 1..MaxInvocations}
CtxAddrs == {CtxAddr(t) : t \in Threads}
Addrs == RecAddrs \cup CtxAddrs

VARIABLES
    status,   \* per thread: "idle", "running", "done", "escaped"
    stubs,    \* per thread: sequence of trampoline frames, outermost first
    cbs,      \* per thread: sequence of callback frames, outermost first
    exc,      \* per thread: code of the exception being dispatched, or NoExc
    search,   \* per thread: index of the stub frame whose filter runs next
    mem,      \* memory: exception records and context cells
    invoked   \* number of trampoline invocations started so far

vars == <<status, stubs, cbs, exc, search, mem, invoked>>

\* ---- helpers ----
TopIsCb(t) == Len(cbs[t]) > 0 /\ Len(cbs[t]) = Len(stubs[t])
TopIsStub(t) == Len(stubs[t]) > Len(cbs[t])
Depth(t) == Len(stubs[t])

\* Mutation: Result starts as MS_CATCHED instead of MS_SUCCEEDED.
NewStubCaught(proc, exception, pre) ==
    [Proc |-> proc, Exception |-> exception,
     Result |-> MS_CATCHED, Code |-> 0, pc |-> "try",
     pre |-> pre, cbRaised |-> NoExc, cbReturned |-> FALSE, seen |-> FALSE,
     calls |-> 0, wrote |-> {}, passed |-> {}, nested |-> <<>>]

\* Lines 40-46: the frame of a new invocation, locals initialised.
NewStub(proc, exception, pre) ==
    [Proc |-> proc, Exception |-> exception,
     Result |-> MS_SUCCEEDED, Code |-> 0, pc |-> "try",
     \* history of this invocation, for the properties
     pre |-> pre, cbRaised |-> NoExc, cbReturned |-> FALSE, seen |-> FALSE,
     calls |-> 0, wrote |-> {}, passed |-> {}, nested |-> <<>>]

NewCb(arg) == [arg |-> arg]

\* Mutation: the callback is handed the record pointer instead of Proc.
CallArgSwapped(f) == f.Exception

\* Line 50: the argument the callback is called with.
CallArg(f) == f.Proc

\* Mutation: the accessor reads one process-wide exception slot (that of the
\* lowest thread with an exception in flight) instead of the calling thread's.
GetExceptionCodeShared(t) ==
    exc[CHOOSE u \in Threads :
            exc[u] # NoExc /\ \A v \in Threads : exc[v] # NoExc => u <= v]

\* Mutation: the accessor returns the code of the exception handled last by
\* a nested invocation, if there was one, instead of the current one.
GetExceptionCodeStale(t) ==
    LET f == stubs[t][search[t]]
    IN IF f.nested # <<>> /\ f.nested[1].cbRaised # NoExc
       THEN f.nested[1].cbRaised
       ELSE exc[t]

\* Lines 22, 31: GetExceptionCode() is _exception_code(), the code of the
\* exception currently dispatched on the calling thread.
GetExceptionCode(t) == exc[t]

\* Mutation: the filter answers "continue search" (0).
FilterContinueSearch == EXCEPTION_EXECUTE_HANDLER - 1

\* Line 52: the value of the filter expression (after the comma).
FilterValue == EXCEPTION_EXECUTE_HANDLER

\* Mutation: the handler leaves the status at MS_SUCCEEDED.
CaughtResultLost == MS_SUCCEEDED

\* Line 54: the status the handler block sets.
CaughtResult == MS_CATCHED

\* Mutation: the handler writes without the NULL test of line 55.
WriteTargetsUnchecked(f) == {f.Exception}

\* Lines 55-59: the addresses the handler writes the code to.
WriteTargets(f) == IF f.Exception # NULL THEN {f.Exception} ELSE {}

\* Mutation: after the handler the trampoline runs the __try block again.
AfterExceptRetry == "try"

\* Lines 60-62: after the handler block the trampoline goes to its return.
AfterExcept == "ret"

\* Mutation: the dispatcher offers the exception to the outermost region.
OutermostRegion(t) == 1

\* Lines 48-52: each invocation establishes its own protected region around
\* the call, so the region a raised exception is offered to first is that of
\* the innermost live invocation.
InnermostRegion(t) == Depth(t)

\* What a caller observes when an invocation returns (line 62): the status,
\* and the record it passed; cbRaised recalls what the callback did.
Outcome(f) ==
    [Result |-> f.Result, Exception |-> f.Exception, cbRaised |-> f.cbRaised]

Init ==
    /\ status = [t \in Threads |-> "idle"]
    /\ stubs = [t \in Threads |-> <<>>]
    /\ cbs = [t \in Threads |-> <<>>]
    /\ exc = [t \in Threads |-> NoExc]
    /\ search = [t \in Threads |-> 0]
    /\ mem = [a \in Addrs |-> IF a \in CtxAddrs THEN 42 ELSE 0]
    /\ invoked = 0

\* A caller on thread t calls the trampoline (lines 40-46).
Invoke(t) ==
    /\ status[t] = "idle"
    /\ invoked < MaxInvocations
    /\ invoked' = invoked + 1
    /\ \E proc \in {NULL, CtxAddr(t)}, exception \in {NULL, RecAddr(t, 1)},
          pre \in Prefill :
        /\ mem' = [a \in Addrs |-> IF a = exception THEN pre ELSE mem[a]]
        /\ stubs' = [stubs EXCEPT ![t] = <<NewStub(proc, exception, pre)>>]
    /\ status' = [status EXCEPT ![t] = "running"]
    /\ UNCHANGED <<cbs, exc, search>>

\* Line 50: the trampoline calls ProcExecutor(Proc) inside the __try.
StubCall(t) ==
    /\ TopIsStub(t)
    /\ LET d == Depth(t)
           f == stubs[t][d]
       IN /\ f.pc = "try"
          /\ stubs' = [stubs EXCEPT ![t][d] =
                 [f EXCEPT !.pc = "call",
                           !.calls = IF f.calls < 2 THEN f.calls + 1 ELSE 2,
                           !.passed = f.passed \cup {CallArg(f)}]]
          /\ cbs' = [cbs EXCEPT ![t] = Append(cbs[t], NewCb(CallArg(f)))]
    /\ UNCHANGED <<status, exc, search, mem, invoked>>

\* The callback writes through its context pointer.
CbWrite(t) ==
    /\ TopIsCb(t) /\ exc[t] = NoExc
    /\ LET d == Depth(t)
           c == cbs[t][d]
       IN /\ c.arg \in CtxAddrs
          /\ mem' = [mem EXCEPT ![c.arg] = 43]
    /\ UNCHANGED <<status, stubs, cbs, exc, search, invoked>>

\* The callback itself calls the trampoline (nested invocation).
CbInvoke(t) ==
    /\ TopIsCb(t) /\ exc[t] = NoExc
    /\ LET d == Depth(t)
           c == cbs[t][d]
       IN /\ invoked < MaxInvocations
          /\ invoked' = invoked + 1
          /\ \E proc \in {NULL, CtxAddr(t)},
                exception \in {NULL, RecAddr(t, d + 1)}, pre \in Prefill :
              /\ mem' = [a \in Addrs |-> IF a = exception THEN pre ELSE mem[a]]
              /\ stubs' = [stubs EXCEPT ![t] =
                     Append(stubs[t], NewStub(proc, exception, pre))]
    /\ UNCHANGED <<status, cbs, exc, search>>

\* The callback (or code it calls) raises a structured exception.
CbRaise(t) ==
    /\ TopIsCb(t) /\ exc[t] = NoExc
    /\ \E code \in Codes :
        /\ exc' = [exc EXCEPT ![t] = code]
        /\ stubs' = [stubs EXCEPT ![t] =
               [i \in 1..Len(stubs[t]) |->
                   [stubs[t][i] EXCEPT
                       !.seen = TRUE,
                       !.cbRaised = IF i = Depth(t) THEN code ELSE @]]]
    /\ search' = [search EXCEPT ![t] = InnermostRegion(t)]
    /\ UNCHANGED <<status, cbs, mem, invoked>>

\* The callback returns normally; the __try block is left at line 51.
CbReturn(t) ==
    /\ TopIsCb(t) /\ exc[t] = NoExc
    /\ LET d == Depth(t)
       IN /\ cbs' = [cbs EXCEPT ![t] = SubSeq(cbs[t], 1, d - 1)]
          /\ stubs' = [stubs EXCEPT ![t][d] =
                 [stubs[t][d] EXCEPT !.pc = "ret", !.cbReturned = TRUE]]
    /\ UNCHANGED <<status, exc, search, mem, invoked>>

\* Line 52: the dispatcher evaluates the filter of the protected region of
\* frame search[t]; value 1 unwinds to that frame's handler, otherwise the
\* search goes on to the next outer region, and past the outermost one the
\* exception leaves the trampoline.
StubFilter(t) ==
    /\ exc[t] # NoExc
    /\ LET i == search[t]
           f == [stubs[t][i] EXCEPT !.Code = GetExceptionCode(t)]
       IN IF FilterValue = EXCEPTION_EXECUTE_HANDLER
          THEN /\ stubs' = [stubs EXCEPT ![t] =
                      Append(SubSeq(stubs[t], 1, i - 1),
                             [f EXCEPT !.pc = "except"])]
               /\ cbs' = [cbs EXCEPT ![t] = SubSeq(cbs[t], 1, i - 1)]
               /\ exc' = [exc EXCEPT ![t] = NoExc]
               /\ search' = [search EXCEPT ![t] = 0]
               /\ UNCHANGED status
          ELSE IF i > 1
          THEN /\ stubs' = [stubs EXCEPT ![t][i] = f]
               /\ search' = [search EXCEPT ![t] = i - 1]
               /\ UNCHANGED <<cbs, exc, status>>
          ELSE /\ stubs' = [stubs EXCEPT ![t] = <<>>]
               /\ cbs' = [cbs EXCEPT ![t] = <<>>]
               /\ exc' = [exc EXCEPT ![t] = NoExc]
               /\ search' = [search EXCEPT ![t] = 0]
               /\ status' = [status EXCEPT ![t] = "escaped"]
    /\ UNCHANGED <<mem, invoked>>

\* Lines 53-60: the handler block.
StubExcept(t) ==
    /\ TopIsStub(t)
    /\ LET d == Depth(t)
           f == stubs[t][d]
       IN /\ f.pc = "except"
          /\ mem' = [a \in Addrs |->
                 IF a \in WriteTargets(f) THEN f.Code ELSE mem[a]]
          /\ stubs' = [stubs EXCEPT ![t][d] =
                 [f EXCEPT !.Result = CaughtResult,
                           !.wrote = f.wrote \cup WriteTargets(f),
                           !.pc = AfterExcept]]
    /\ UNCHANGED <<status, cbs, exc, search, invoked>>

\* Line 62: return Result to the caller (an outer callback or the thread).
StubReturn(t) ==
    /\ TopIsStub(t)
    /\ LET d == Depth(t)
           f == stubs[t][d]
       IN /\ f.pc = "ret"
          /\ IF d = 1
             THEN /\ stubs' = [stubs EXCEPT ![t] = <<>>]
                  /\ status' = [status EXCEPT ![t] = "done"]
             ELSE /\ stubs' = [stubs EXCEPT ![t] =
                         [SubSeq(stubs[t], 1, d - 1) EXCEPT
                             ![d - 1].nested = <<Outcome(f)>>]]
                  /\ UNCHANGED status
    /\ UNCHANGED <<cbs, exc, search, mem, invoked>>

Step(t) ==
    \/ Invoke(t)
    \/ StubCall(t)
    \/ CbWrite(t)
    \/ CbInvoke(t)
    \/ CbRaise(t)
    \/ CbReturn(t)
    \/ StubFilter(t)
    \/ StubExcept(t)
    \/ StubReturn(t)

Next == \E t \in Threads : Step(t)

Spec == Init /\ [][Next]_vars

\* The threads are scheduled: while some thread can take a step, one is taken.
FairSpec == Spec /\ WF_vars(Next)

\* ---- properties ----

\* The live invocations, as <<thread, depth>>, and those at `return Result`.
Live == {td \in Threads \X (1..MaxInvocations) : td[2] <= Len(stubs[td[1]])}
Frame(td) == stubs[td[1]][td[2]]
Returning == {td \in Live : Frame(td).pc = "ret"}
Unwritten(f) == f.wrote = {} /\ (f.Exception # NULL => mem[f.Exception] = f.pre)

\* C1: an invocation whose callback returned normally returns Succeeded (0)
\* and its record, if any, still holds the value pre-filled before the call;
\* a record is written only by an invocation that returns Caught and was
\* given a non-null record, and then only that record.
C1_NormalReturn ==
    \A td \in Live :
        LET f == Frame(td)
        IN /\ (f.pc = "ret" /\ f.cbReturned) =>
                  (f.Result = MS_SUCCEEDED /\ Unwritten(f))
           /\ f.wrote # {} =>
                  (f.Result = MS_CATCHED /\ f.Exception # NULL
                   /\ f.wrote = {f.Exception})

C1_Witness ==
    \E td \in Returning :
        /\ Frame(td).cbReturned
        /\ Frame(td).Exception # NULL
        /\ Frame(td).Result = MS_SUCCEEDED
        /\ mem[Frame(td).Exception] \in Prefill

\* C2: an invocation whose callback raised a structured exception returns
\* Caught (1), and a supplied record holds the non-zero code that was raised.
C2_RaiseCaught ==
    \A td \in Returning :
        LET f == Frame(td)
        IN f.cbRaised # NoExc =>
               /\ f.Result = MS_CATCHED
               /\ f.Exception # NULL =>
                      (mem[f.Exception] = f.cbRaised /\ mem[f.Exception] # 0)

C2_Witness ==
    \E td \in Returning :
        /\ Frame(td).cbRaised = 148
        /\ Frame(td).Result = MS_CATCHED
        /\ Frame(td).Exception # NULL
        /\ mem[Frame(td).Exception] = 148

\* C3: the handler step of an invocation with a null record sets the status
\* to Caught, writes through no reference and leaves all memory as it was.
C3_NullRecord ==
    [][\A td \in Live :
          (Frame(td).pc = "except" /\ Frame(td).Exception = NULL
           /\ stubs'[td[1]] # stubs[td[1]]) =>
              /\ mem' = mem
              /\ stubs'[td[1]][td[2]].Result = MS_CATCHED
              /\ stubs'[td[1]][td[2]].wrote = {}]_vars

C3_Witness ==
    \E td \in Returning :
        /\ Frame(td).cbRaised # NoExc
        /\ Frame(td).Exception = NULL
        /\ Frame(td).Result = MS_CATCHED
        /\ Frame(td).wrote = {}

\* C4: no exception leaves the trampoline: no thread's caller ever sees one,
\* the exception in flight is always offered to a live invocation's region,
\* and every invocation returns one of the two status values.
C4_NoEscape ==
    /\ \A t \in Threads :
           /\ status[t] # "escaped"
           /\ exc[t] # NoExc => search[t] \in 1..Len(stubs[t])
    /\ \A td \in Returning : Frame(td).Result \in {MS_SUCCEEDED, MS_CATCHED}

C4_Witness ==
    \E t \in Threads :
        /\ status[t] = "running"
        /\ Len(stubs[t]) = 1 /\ Len(cbs[t]) = 0
        /\ stubs[t][1].pc = "ret"
        /\ stubs[t][1].cbRaised = 5
        /\ stubs[t][1].Result = MS_CATCHED

\* C5: when a callback's nested invocation caught a fault and the callback
\* then returns normally, the inner invocation returned Caught with its code
\* in the inner record, and the outer one returns Succeeded, its record and
\* its Code untouched; a handler only ever runs in the invocation whose own
\* callback raised.
C5_Nested ==
    \A td \in Live :
        LET f == Frame(td)
        IN /\ (f.pc = "ret" /\ f.cbReturned /\ f.nested # <<>>
               /\ f.nested[1].cbRaised # NoExc) =>
                  /\ f.nested[1].Result = MS_CATCHED
                  /\ f.nested[1].Exception # NULL =>
                         mem[f.nested[1].Exception] = f.nested[1].cbRaised
                  /\ f.Result = MS_SUCCEEDED
                  /\ f.Code = 0
                  /\ Unwritten(f)
           /\ f.pc = "except" => f.cbRaised # NoExc

C5_Witness ==
    \E td \in Returning :
        LET f == Frame(td)
        IN /\ f.cbReturned /\ f.nested # <<>>
           /\ f.nested[1].Result = MS_CATCHED
           /\ f.nested[1].Exception # NULL
           /\ mem[f.nested[1].Exception] = 5
           /\ f.Exception # NULL /\ mem[f.Exception] \in Prefill
           /\ f.Result = MS_SUCCEEDED

\* C6: whatever the interleaving of the threads, each invocation's captured
\* code, record and status are those of its own callback: the code is its own
\* callback's, the record holds the pre-filled value until its own handler
\* writes its own code, and the status is Caught exactly when its own callback
\* raised.
C6_Threads ==
    \A td \in Live :
        LET f == Frame(td)
        IN /\ f.Code \in {0, f.cbRaised}
           /\ f.Exception # NULL =>
                  mem[f.Exception] = (IF f.wrote # {} THEN f.cbRaised ELSE f.pre)
           /\ f.pc = "ret" =>
                  f.Result = (IF f.cbRaised # NoExc THEN MS_CATCHED
                                                    ELSE MS_SUCCEEDED)

C6_Witness ==
    \E t, u \in Threads :
        /\ t # u
        /\ exc[t] = 5 /\ exc[u] = NoExc
        /\ Len(stubs[t]) = 1 /\ Len(stubs[u]) = 1
        /\ stubs[u][1].pc = "ret"
        /\ stubs[u][1].Result = MS_CATCHED
        /\ stubs[u][1].Exception # NULL
        /\ mem[stubs[u][1].Exception] = 148

\* C7: the callback is called with exactly the context the trampoline was
\* given, and the trampoline writes nothing through that pointer: the context
\* cells only ever hold what a callback wrote.
C7_Context ==
    /\ \A td \in Live :
           LET f == Frame(td)
           IN /\ f.passed \subseteq {f.Proc}
              /\ f.Proc \notin f.wrote
              /\ td[2] <= Len(cbs[td[1]]) => cbs[td[1]][td[2]].arg = f.Proc
    /\ \A t \in Threads : mem[CtxAddr(t)] \in {42, 43}

C7_Witness ==
    \E t, u \in Threads :
        /\ Len(cbs[t]) = 1 /\ cbs[t][1].arg = NULL /\ stubs[t][1].Proc = NULL
        /\ Len(cbs[u]) = 1 /\ cbs[u][1].arg = CtxAddr(u)
        /\ stubs[u][1].passed = {CtxAddr(u)}

\* C8 as stated: an invocation during whose callback a structured exception
\* was raised returns Caught, also when the callback's own handling (a nested
\* invocation) took the exception.
C8_Original ==
    \A td \in Returning : Frame(td).seen => Frame(td).Result = MS_CATCHED

\* C8 amended: an exception taken by a protected region inside the callback
\* is consumed there; the invocation returns Caught exactly when an exception
\* reached its own region, and Succeeded, with Code and record untouched, when
\* every exception raised during its callback was taken further in.
C8_Amended ==
    \A td \in Returning :
        LET f == Frame(td)
        IN /\ f.Result = MS_CATCHED <=> f.cbRaised # NoExc
           /\ (f.seen /\ f.cbRaised = NoExc) =>
                  (f.Result = MS_SUCCEEDED /\ f.Code = 0 /\ Unwritten(f)
                   /\ f.nested # <<>>)

C8_Witness ==
    \E td \in Returning :
        /\ Frame(td).seen
        /\ Frame(td).cbRaised = NoExc
        /\ Frame(td).Result = MS_SUCCEEDED

\* The safety part of C9: an invocation calls its callback exactly once; once the
\* callback has returned or raised, its frame is gone for good and the
\* trampoline frame is the top of the stack.
C9_Once ==
    \A td \in Live :
        LET f == Frame(td)
        IN /\ f.calls = (IF f.pc = "try" THEN 0 ELSE 1)
           /\ f.pc \in {"except", "ret"} =>
                  (td[2] = Len(stubs[td[1]]) /\ Len(cbs[td[1]]) = td[2] - 1)

\* C9: each invocation calls its callback exactly once, inside the __try and
\* before it returns, never retries or resumes the callback, and returns once
\* the callback has returned or raised: eventually no invocation is running.
C9_OnceAndReturns ==
    /\ []C9_Once
    /\ <>[](\A t \in Threads : status[t] # "running")

C9_Witness ==
    \E td \in Returning :
        /\ Frame(td).calls = 1
        /\ Frame(td).cbRaised # NoExc
        /\ Frame(td).Result = MS_CATCHED
        /\ Len(cbs[td[1]]) = td[2] - 1

\* C10: an invocation whose callback first ran a nested invocation that
\* caught a fault and then raised itself returns Caught with the code of its
\* own fault in its Code and record, while the inner record keeps the code
\* the inner invocation caught.
C10_OwnCode ==
    \A td \in Returning :
        LET f == Frame(td)
        IN (f.cbRaised # NoExc /\ f.nested # <<>>
            /\ f.nested[1].cbRaised # NoExc) =>
               /\ f.Result = MS_CATCHED
               /\ f.Code = f.cbRaised
               /\ f.Exception # NULL => mem[f.Exception] = f.cbRaised
               /\ f.nested[1].Exception # NULL =>
                      mem[f.nested[1].Exception] = f.nested[1].cbRaised

C10_Witness ==
    \E td \in Returning :
        LET f == Frame(td)
        IN /\ f.nested # <<>>
           /\ f.nested[1].Exception # NULL /\ f.Exception # NULL
           /\ mem[f.nested[1].Exception] = 5
           /\ mem[f.Exception] = 148
           /\ f.Result = MS_CATCHED
====
